---- MODULE Spec2Model ----
(***************************************************************************)
(* Model of AdvancedFunctionThrottler (src/_misc/throttle/scripts/         *)
(* throttle.py): keyed call throttling with bounded per-key queues, an     *)
(* overflow strategy, a global budget and deferred execution through the   *)
(* host's run(callback, delayFrames=n).                                    *)
(*                                                                         *)
(* Time is counted in ticks; one frame is TicksPerFrame ticks, so that the *)
(* conversion int(delay * 60) of a delay to whole frames truncates.        *)
(* A callable is instantaneous: all time.time() reads of one handler       *)
(* return the same value.  A callable returns or raises; it does not call  *)
(* back into the throttler.  A queued call is (function_ref, args, kwargs, *)
(* current_time); the enqueue time is never read and is left out, and the  *)
(* callable is its serial number and whether it raises.                    *)
(***************************************************************************)
EXTENDS Integers, Sequences, FiniteSets, TLC

\* ---------------------------------------------------------------- bounds
MaxCalls == 4
MaxLaneCalls == 5
MaxLiveCalls == 4
StartTime == 4
TicksPerFrame == 2
MaxPerQueue == 2
MaxGlobal == 2

\* The keys (function_name) callers use; the empty string is a legal key.
Keys == {"", "a"}
\* The argument of clear_queue: a key, or None when it is omitted.
None == "None"
ClearArgs == Keys \cup {None}
Strategies == {"drop_oldest", "drop_newest", "skip_new"}
\* throttle_time values, in ticks (0 = no throttling, 2 = one frame)
ThrottleTimes == {0, 2}

VARIABLES
    call_queues,          \* function_name -> sequence of queued calls
    processing_flags,     \* function_name -> BOOLEAN
    last_execution_time,  \* function_name -> time (absent = never)
    stats,                \* [dropped_calls, total_calls]
    throttle_time,
    max_queue_size,
    queue_strategy,
    total_max_queued_items,
    scheduled,            \* delayed_exec closures handed to run(), not yet fired
    now,                  \* time.time()
    runs,                 \* history: key -> [n, call, t], the number of its
                          \*   executions and the latest one (absent = none)
    last                  \* history: the operation that made the last step,
                          \*   the value it returned, the calls it executed
                          \*   (in order), the calls it dropped and how deep
                          \*   it nested _process_queue/_execute_and_continue

vars == <<call_queues, processing_flags, last_execution_time, stats,
          throttle_time, max_queue_size, queue_strategy,
          total_max_queued_items, scheduled, now, runs, last>>

config == <<throttle_time, max_queue_size, queue_strategy, total_max_queued_items>>

\* ------------------------------------------------------------ helpers
EmptyMap == [k \in {} |-> 0]

\* dict.get(k, default)
Get(map, k, default) == IF k \in DOMAIN map THEN map[k] ELSE default

\* dict[k] = v
Put(map, k, v) == [x \in DOMAIN map \cup {k} |-> IF x = k THEN v ELSE map[x]]

Front(q) == SubSeq(q, 1, Len(q) - 1)

RECURSIVE SumLen(_, _)
SumLen(map, ks) ==
    IF ks = {} THEN 0
    ELSE LET k == CHOOSE x \in ks : TRUE
         IN Len(map[k]) + SumLen(map, ks \ {k})

\* sum(len(q) for q in self.call_queues.values())
TotalQueued(cq) == SumLen(cq, DOMAIN cq)

\* the program state a handler works on
Self == [call_queues |-> call_queues,
         processing_flags |-> processing_flags,
         last_execution_time |-> last_execution_time,
         stats |-> stats,
         scheduled |-> scheduled,
         runs |-> runs,
         ran |-> <<>>,
         dropped |-> {},
         depth |-> 0]

\* int(delay * 60): whole frames, truncated
DelayFrames(delay) == delay \div TicksPerFrame

\* run(delayed_exec, delayFrames=n): the callback may fire once n frames passed
Run(s, key, call, frames) ==
    [s EXCEPT !.scheduled = @ \cup {[key |-> key, call |-> call,
                                     due |-> now + frames * TicksPerFrame]}]

\* function_ref(*args, **kwargs) and, when it returns, the time stamp
CallFunction(s, key, call) ==
    LET n == Get(s.runs, key, [n |-> 0]).n
        ran == [s EXCEPT !.runs = Put(@, key, [n |-> n + 1, call |-> call, t |-> now]),
                         !.ran = Append(@, call)]
    IN IF call.raises
       THEN ran
       ELSE [ran EXCEPT !.last_execution_time = Put(@, key, now)]

\* (changed: a key that never ran counts as having run just now)
LastExecNow(s, key) == Get(s.last_execution_time, key, now)

\* self.last_execution_time.get(function_name, 0)
LastExec(s, key) == Get(s.last_execution_time, key, 0)

RECURSIVE ProcessQueue(_, _)
RECURSIVE ExecuteAndContinue(_, _, _)

ProcessQueue(s, key) ==
    IF key \notin DOMAIN s.call_queues \/ Len(s.call_queues[key]) = 0
    THEN [s EXCEPT !.depth = @ + 1]
    ELSE LET call == Head(s.call_queues[key])
             s1 == [s EXCEPT !.depth = @ + 1,
                             !.processing_flags[key] = TRUE,
                             !.call_queues[key] = Tail(@)]
             last_exec == LastExec(s, key)
             time_since_last == now - last_exec
         IN IF time_since_last >= throttle_time
            THEN ExecuteAndContinue(s1, key, call)
            ELSE Run(s1, key, call, DelayFrames(throttle_time - time_since_last))

\* (changed: the flag is reset but the queue is not looked at again)
ExecuteAndStop(s, key, call) ==
    [CallFunction([s EXCEPT !.depth = @ + 1], key, call)
         EXCEPT !.processing_flags[key] = FALSE]

ExecuteAndContinue(s, key, call) ==
    LET s1 == CallFunction([s EXCEPT !.depth = @ + 1], key, call)
        s2 == [s1 EXCEPT !.processing_flags[key] = FALSE]
    IN IF key \in DOMAIN s2.call_queues /\ Len(s2.call_queues[key]) > 0
       THEN ProcessQueue(s2, key)
       ELSE s2

\* (changed: > for >=)
GlobalLimitExceeded(total_queued) == total_queued > total_max_queued_items

\* total_queued >= self.total_max_queued_items
GlobalLimitReached(total_queued) == total_queued >= total_max_queued_items

\* (changed: a non-empty queue is full one entry early)
QueueFullEarly(queue) == Len(queue) > 0 /\ Len(queue) + 1 >= max_queue_size

\* len(queue) >= self.max_queue_size
QueueFull(queue) == Len(queue) >= max_queue_size

\* (changed: "drop_newest" refuses the incoming call too)
SkipsNewOrNewest(queue) == QueueFull(queue) /\ queue_strategy # "drop_oldest"

\* a full queue under "skip_new" refuses the incoming call
SkipsNew(queue) == QueueFull(queue) /\ queue_strategy = "skip_new"

\* (changed: nothing is evicted)
ApplyStrategyKeepAll(queue) == queue

\* (changed: popleft and pop exchanged)
ApplyStrategySwapped(queue) ==
    IF queue_strategy = "drop_oldest" THEN Front(queue)
    ELSE IF queue_strategy = "drop_newest" THEN Tail(queue)
    ELSE queue

\* the per-key overflow strategy applied to a full queue:
\* queue.popleft() or queue.pop()
ApplyStrategy(queue) ==
    IF queue_strategy = "drop_oldest" THEN Tail(queue)
    ELSE IF queue_strategy = "drop_newest" THEN Front(queue)
    ELSE queue

\* the calls of a sequence
Calls(queue) == {queue[i] : i \in 1..Len(queue)}

\* queue_call: the state it leaves and the value it returns
QueueCallResult(s, key, call) ==
    LET s0 == [s EXCEPT !.stats.total_calls = @ + 1]
        s1 == IF key \in DOMAIN s0.call_queues
              THEN s0
              ELSE [s0 EXCEPT !.call_queues = Put(@, key, <<>>),
                              !.processing_flags = Put(@, key, FALSE)]
        total_queued == TotalQueued(s1.call_queues)
        queue == s1.call_queues[key]
        dropped == [s1 EXCEPT !.stats.dropped_calls = @ + 1]
        refused == [dropped EXCEPT !.dropped = @ \cup {call}]
    IN IF GlobalLimitReached(total_queued)
       THEN [state |-> refused, ret |-> FALSE]
       ELSE IF SkipsNew(queue)
       THEN [state |-> refused, ret |-> FALSE]
       ELSE LET s2 == IF QueueFull(queue)
                      THEN [dropped EXCEPT
                               !.call_queues[key] = ApplyStrategy(@),
                               !.dropped = @ \cup (Calls(queue) \ Calls(ApplyStrategy(queue)))]
                      ELSE s1
                s3 == [s2 EXCEPT !.call_queues[key] = Append(@, call)]
            IN [state |-> IF ~s3.processing_flags[key]
                          THEN ProcessQueue(s3, key)
                          ELSE s3,
                ret |-> TRUE]

\* (changed: the calls a clear discards are not counted)
ClearQueueResultUncounted(s, function_name) ==
    IF function_name # None /\ function_name # ""
    THEN IF function_name \in DOMAIN s.call_queues
         THEN LET dropped == Len(s.call_queues[function_name])
              IN [state |-> [s EXCEPT !.call_queues[function_name] = <<>>,
                                      !.processing_flags[function_name] = FALSE,
                                      !.dropped = Calls(s.call_queues[function_name])],
                  ret |-> dropped]
         ELSE [state |-> s, ret |-> 0]
    ELSE LET total_dropped == TotalQueued(s.call_queues)
         IN [state |-> [s EXCEPT
                 !.call_queues = [k \in DOMAIN s.call_queues |-> <<>>],
                 !.processing_flags = [k \in DOMAIN s.processing_flags |-> FALSE],
                 !.dropped = UNION {Calls(s.call_queues[k]) : k \in DOMAIN s.call_queues}],
             ret |-> total_dropped]

\* clear_queue: the state it leaves and the value it returns
ClearQueueResult(s, function_name) ==
    IF function_name # None /\ function_name # ""
    THEN IF function_name \in DOMAIN s.call_queues
         THEN LET dropped == Len(s.call_queues[function_name])
              IN [state |-> [s EXCEPT !.call_queues[function_name] = <<>>,
                                      !.processing_flags[function_name] = FALSE,
                                      !.stats.dropped_calls = @ + dropped,
                                      !.dropped = Calls(s.call_queues[function_name])],
                  ret |-> dropped]
         ELSE [state |-> s, ret |-> 0]
    ELSE LET total_dropped == TotalQueued(s.call_queues)
         IN [state |-> [s EXCEPT
                 !.call_queues = [k \in DOMAIN s.call_queues |-> <<>>],
                 !.processing_flags = [k \in DOMAIN s.processing_flags |-> FALSE],
                 !.stats.dropped_calls = @ + total_dropped,
                 !.dropped = UNION {Calls(s.call_queues[k]) : k \in DOMAIN s.call_queues}],
             ret |-> total_dropped]

Max(a, b) == IF a >= b THEN a ELSE b

\* get_stats: the dictionary it returns; the quotient drop_rate is kept as
\* its numerator and denominator
GetStats(s) ==
    [total_queued_items |-> TotalQueued(s.call_queues),
     active_queues |-> Cardinality({k \in DOMAIN s.call_queues :
                                       Len(s.call_queues[k]) > 0}),
     total_calls_made |-> s.stats.total_calls,
     dropped_calls |-> s.stats.dropped_calls,
     drop_rate |-> [num |-> s.stats.dropped_calls,
                    den |-> Max(1, s.stats.total_calls)],
     queue_details |-> [k \in {x \in DOMAIN s.call_queues :
                                  Len(s.call_queues[x]) > 0}
                           |-> Len(s.call_queues[k])]]

\* write a handler's resulting state back
Commit(s) ==
    /\ call_queues' = s.call_queues
    /\ processing_flags' = s.processing_flags
    /\ last_execution_time' = s.last_execution_time
    /\ stats' = s.stats
    /\ scheduled' = s.scheduled
    /\ runs' = s.runs

\* ------------------------------------------------------------ the machine
\* __init__: nothing queued, nothing run
Fresh ==
    /\ call_queues = EmptyMap
    /\ processing_flags = EmptyMap
    /\ last_execution_time = EmptyMap
    /\ stats = [dropped_calls |-> 0, total_calls |-> 0]
    /\ scheduled = {}
    /\ now = StartTime
    /\ runs = EmptyMap
    /\ last = [op |-> "init", key |-> None, ret |-> 0, ran |-> <<>>, dropped |-> {},
               depth |-> 0]

\* set_throttle_time and set_queue_limits, called once before use
Init ==
    /\ Fresh
    /\ throttle_time \in ThrottleTimes
    /\ max_queue_size \in 1..MaxPerQueue
    /\ queue_strategy \in Strategies
    /\ total_max_queued_items \in 1..MaxGlobal

\* a caller submits a call whose callable returns or raises
QueueCallStep(key, raises) ==
    /\ LET call == [id |-> stats.total_calls + 1, raises |-> raises]
           r == QueueCallResult(Self, key, call)
       IN /\ Commit(r.state)
          /\ last' = [op |-> "submit", key |-> key, ret |-> r.ret,
                      ran |-> r.state.ran, dropped |-> r.state.dropped,
                      depth |-> r.state.depth]
    /\ UNCHANGED <<config, now>>

QueueCall(key, raises) ==
    /\ stats.total_calls < MaxCalls
    /\ QueueCallStep(key, raises)

ClearQueue(function_name) ==
    /\ LET r == ClearQueueResult(Self, function_name)
       IN /\ Commit(r.state)
          /\ last' = [op |-> "clear", key |-> function_name, ret |-> r.ret,
                      ran |-> <<>>, dropped |-> r.state.dropped, depth |-> 0]
    /\ UNCHANGED <<config, now>>

\* the host fires a delayed_exec closure whose frames have passed
DelayedExec(cb) ==
    /\ cb \in scheduled
    /\ now >= cb.due
    /\ LET s == ExecuteAndContinue([Self EXCEPT !.scheduled = @ \ {cb}],
                                   cb.key, cb.call)
       IN /\ Commit(s)
          /\ last' = [op |-> "fire", key |-> cb.key, ret |-> 0, ran |-> s.ran,
                      dropped |-> {}, depth |-> s.depth]
    /\ UNCHANGED <<config, now>>

\* Time passes.  Only the time since a key's last stamp (while it is below
\* throttle_time) and the time left to a scheduled callback are ever read,
\* so the clock is advanced while one of them can still change.
Tick ==
    /\ \/ \E k \in DOMAIN last_execution_time :
              now - last_execution_time[k] < throttle_time
       \/ \E cb \in scheduled : cb.due > now
    /\ now' = now + 1
    /\ last' = [op |-> "tick", key |-> None, ret |-> 0, ran |-> <<>>,
                dropped |-> {}, depth |-> 0]
    /\ UNCHANGED <<call_queues, processing_flags, last_execution_time, stats,
                   config, scheduled, runs>>

Next ==
    \/ \E key \in Keys, raises \in BOOLEAN : QueueCall(key, raises)
    \/ \E function_name \in ClearArgs : ClearQueue(function_name)
    \/ \E cb \in scheduled : DelayedExec(cb)
    \/ Tick

Spec == Init /\ [][Next]_vars

\* One lane driven deeper, under a budget that leaves its queue room to fill.
LaneKey == "a"

InitLane ==
    /\ Fresh
    /\ throttle_time \in ThrottleTimes
    /\ max_queue_size \in 1..MaxPerQueue
    /\ queue_strategy \in Strategies
    /\ total_max_queued_items = max_queue_size + 1

LaneCall(raises) ==
    /\ stats.total_calls < MaxLaneCalls
    /\ QueueCallStep(LaneKey, raises)

NextLane ==
    \/ \E raises \in BOOLEAN : LaneCall(raises)
    \/ \E function_name \in {LaneKey, None} : ClearQueue(function_name)
    \/ \E cb \in scheduled : DelayedExec(cb)
    \/ Tick

SpecLane == InitLane /\ [][NextLane]_vars

\* One lane under a host that eventually runs every callback it was handed,
\* while time passes; callers may stop submitting at any point.
Fire == \E cb \in scheduled : DelayedExec(cb)

LiveCall(raises) ==
    /\ stats.total_calls < MaxLiveCalls
    /\ QueueCallStep(LaneKey, raises)

NextLive ==
    \/ \E raises \in BOOLEAN : LiveCall(raises)
    \/ \E function_name \in {LaneKey, None} : ClearQueue(function_name)
    \/ Fire
    \/ Tick

FairSpec == Init /\ [][NextLive]_vars /\ WF_vars(Fire) /\ WF_vars(Tick)

\* A burst: callers submit in quick succession; no time passes, the host
\* fires no callback and nobody clears.  The budget may exceed a full queue.
InitBurst ==
    /\ Fresh
    /\ throttle_time \in ThrottleTimes
    /\ max_queue_size \in 1..MaxPerQueue
    /\ queue_strategy \in Strategies
    /\ total_max_queued_items \in 1..(MaxPerQueue + 1)

NextBurst == \E key \in Keys, raises \in BOOLEAN : QueueCall(key, raises)

SpecBurst == InitBurst /\ [][NextBurst]_vars

\* set_queue_limits called again between submissions, with limits of at
\* least one; one lane.
SetQueueLimits(max_per_queue, strategy, global_max) ==
    /\ max_queue_size' = max_per_queue
    /\ queue_strategy' = strategy
    /\ total_max_queued_items' = global_max
    /\ last' = [op |-> "limits", key |-> None, ret |-> 0, ran |-> <<>>,
                dropped |-> {}, depth |-> 0]
    /\ UNCHANGED <<call_queues, processing_flags, last_execution_time, stats,
                   throttle_time, scheduled, now, runs>>

NextReconf ==
    \/ \E raises \in BOOLEAN : LaneCall(raises)
    \/ \E max_per_queue \in 1..MaxPerQueue, strategy \in Strategies,
          global_max \in 1..(MaxPerQueue + 1) :
           SetQueueLimits(max_per_queue, strategy, global_max)
    \/ \E cb \in scheduled : DelayedExec(cb)
    \/ Tick

SpecReconf == InitLane /\ [][NextReconf]_vars

\* ------------------------------------------------------------ views
\* the queue, flag and stamp of a key, whether or not its entries exist yet
QueueOf(k) == Get(call_queues, k, <<>>)
FlagOf(k) == Get(processing_flags, k, FALSE)

\* the delayed_exec closures outstanding for a key
Outstanding(k) == {cb \in scheduled : cb.key = k}

QueuedCalls == UNION {Calls(call_queues[k]) : k \in DOMAIN call_queues}
ScheduledCalls == {cb.call : cb \in scheduled}

Ids(calls) == {c.id : c \in calls}
RanCalls == Calls(last.ran)

\* the number of executions so far, over the keys ks
RECURSIVE SumRuns(_, _)
SumRuns(r, ks) ==
    IF ks = {} THEN 0
    ELSE LET k == CHOOSE x \in ks : TRUE
         IN r[k].n + SumRuns(r, ks \ {k})

Executed == SumRuns(runs, DOMAIN runs)

\* ------------------------------------------------------------ claims

\* C1: any two consecutive executions of calls sharing a key are at least
\* throttle_time apart: a step that executes calls for a key executes the
\* first one no sooner than throttle_time after that key's previous
\* execution, and executes a second one in the same instant only when
\* throttle_time is 0.
C1_ThrottleSpacing ==
    [][\A k \in Keys :
          (last'.key = k /\ Len(last'.ran) > 0)
              => /\ k \in DOMAIN runs => now' - runs[k].t >= throttle_time
                 /\ Len(last'.ran) > 1 => throttle_time = 0]_vars

\* C2: after every submit returns, no queue is longer than max_queue_size.
C2_PerKeyBound ==
    last.op = "submit"
        => \A k \in DOMAIN call_queues : Len(call_queues[k]) <= max_queue_size

\* a submit returned after a full queue made it evict or refuse a call
C2_Witness ==
    /\ last.op = "submit"
    /\ last.dropped # {}
    /\ Len(QueueOf(last.key)) = max_queue_size
    /\ TotalQueued(call_queues) < total_max_queued_items

\* C3: after every submit returns, the queues together hold at most
\* total_max_queued_items calls.
C3_GlobalBudget ==
    last.op = "submit" => TotalQueued(call_queues) <= total_max_queued_items

\* a submit was refused because the budget was used up, in a key with room
C3_Witness ==
    /\ last.op = "submit"
    /\ last.ret = FALSE
    /\ TotalQueued(call_queues) = total_max_queued_items
    /\ Len(QueueOf(last.key)) < max_queue_size

\* C4: a key never has two delayed callbacks outstanding at once.
C4_SingleDrain ==
    \A k \in Keys : Cardinality(Outstanding(k)) <= 1

\* C5: a raising callable still counts as an execution: the key's
\* last_execution_time is the time of the key's latest execution.
C5_FailureStamps ==
    \A k \in DOMAIN runs :
        /\ k \in DOMAIN last_execution_time
        /\ last_execution_time[k] = runs[k].t

\* C6: every call that sits in a queue or with the host is eventually
\* executed or dropped (evicted or cleared), with no further submit, and a
\* call handed to the host leaves the host only by being executed.
C6_Liveness ==
    /\ \A id \in 1..MaxLiveCalls :
          (id \in Ids(QueuedCalls) \cup Ids(ScheduledCalls))
              ~> (id \in Ids(RanCalls) \cup Ids(last.dropped))
    /\ [][ScheduledCalls \ ScheduledCalls' \subseteq RanCalls']_vars

\* a callback fired, its call ran and the next queued call was handed on
C6_Witness ==
    /\ last.op = "fire"
    /\ Len(last.ran) = 1
    /\ \E cb \in Outstanding(last.key) : cb.call.id > last.ran[1].id

\* C7: submit returns false exactly when the global budget is used up or the
\* key's queue is full under skip_new; then no queue, flag or stamp changes,
\* nothing is handed to the host, nothing runs, dropped_calls and
\* total_calls grow by one, and the refused call is never run later (a step
\* runs only calls that were queued or handed to the host, or the call a
\* submit just accepted).
C7_Rejection ==
    [][/\ \A key \in Keys :
            (last'.op = "submit" /\ last'.key = key)
                => LET rejected ==
                           \/ TotalQueued(call_queues) >= total_max_queued_items
                           \/ /\ Len(QueueOf(key)) >= max_queue_size
                              /\ queue_strategy = "skip_new"
                   IN /\ (last'.ret = FALSE) <=> rejected
                      /\ stats'.total_calls = stats.total_calls + 1
                      /\ rejected =>
                           /\ \A k \in Keys : /\ QueueOf(k)' = QueueOf(k)
                                              /\ FlagOf(k)' = FlagOf(k)
                           /\ last_execution_time' = last_execution_time
                           /\ scheduled' = scheduled
                           /\ runs' = runs
                           /\ last'.ran = <<>>
                           /\ stats'.dropped_calls = stats.dropped_calls + 1
       /\ \A c \in RanCalls' :
            \/ c \in QueuedCalls \cup ScheduledCalls
            \/ last'.op = "submit" /\ last'.ret = TRUE
                                   /\ c.id = stats'.total_calls]_vars

\* a submit was refused by the budget although its key's queue was full
\* under a dropping strategy; nothing was evicted
C7_Witness ==
    /\ last.op = "submit"
    /\ last.ret = FALSE
    /\ queue_strategy # "skip_new"
    /\ Len(QueueOf(last.key)) = max_queue_size
    /\ Cardinality(last.dropped) = 1
    /\ Ids(last.dropped) = {stats.total_calls}

\* C8: with budget left and the key's queue full, drop_oldest evicts exactly
\* the head and drop_newest exactly the tail; the incoming call is appended
\* behind the entries that stay, in their order; submit returns true and
\* dropped_calls grows by one.
C8_Eviction ==
    [][\A key \in Keys :
          (/\ last'.op = "submit" /\ last'.key = key
           /\ TotalQueued(call_queues) < total_max_queued_items
           /\ Len(QueueOf(key)) >= max_queue_size
           /\ queue_strategy \in {"drop_oldest", "drop_newest"})
              => LET q == QueueOf(key)
                     kept == IF queue_strategy = "drop_oldest"
                             THEN SubSeq(q, 2, Len(q))
                             ELSE SubSeq(q, 1, Len(q) - 1)
                     gone == IF queue_strategy = "drop_oldest"
                             THEN q[1]
                             ELSE q[Len(q)]
                 IN /\ last'.ret = TRUE
                    /\ \E raises \in BOOLEAN :
                          call_queues'[key] =
                              kept \o <<[id |-> stats'.total_calls, raises |-> raises]>>
                    /\ last'.dropped = {gone}
                    /\ stats'.dropped_calls = stats.dropped_calls + 1]_vars

\* a submit to a full queue of two evicted one entry and kept the other
C8_Witness ==
    /\ last.op = "submit"
    /\ last.ret = TRUE
    /\ Cardinality(last.dropped) = 1
    /\ Len(QueueOf(last.key)) = 2
    /\ QueueOf(last.key)[2].id = stats.total_calls

\* C9: the first accepted submit for an idle key that has no
\* last_execution_time runs its call before it returns, hands nothing to the
\* host and leaves the key's queue empty.
C9_FirstImmediate ==
    [][\A key \in Keys :
          (/\ last'.op = "submit" /\ last'.key = key /\ last'.ret = TRUE
           /\ key \notin DOMAIN last_execution_time
           /\ ~FlagOf(key))
              => /\ Len(last'.ran) = 1
                 /\ last'.ran[1].id = stats'.total_calls
                 /\ scheduled' = scheduled
                 /\ call_queues'[key] = <<>>]_vars

\* the first submit of a key, under a positive throttle_time, ran at once
C9_Witness ==
    /\ last.op = "submit"
    /\ last.ret = TRUE
    /\ throttle_time > 0
    /\ last.key \in DOMAIN runs
    /\ runs[last.key].n = 1
    /\ Ids(RanCalls) = {stats.total_calls}
    /\ scheduled = {}

\* C10: clear(k) with an explicit key empties queue[k], resets the flag of
\* k, returns and counts the calls that were queued for k, and leaves the
\* queue, flag and stamp of every other key alone.
C10_ClearConfined ==
    [][\A k \in Keys :
          (last'.op = "clear" /\ last'.key = k)
              => /\ QueueOf(k)' = <<>>
                 /\ FlagOf(k)' = FALSE
                 /\ last'.ret = Len(QueueOf(k))
                 /\ stats'.dropped_calls = stats.dropped_calls + Len(QueueOf(k))
                 /\ \A j \in Keys \ {k} :
                       /\ QueueOf(j)' = QueueOf(j)
                       /\ FlagOf(j)' = FlagOf(j)
                       /\ LastExec(Self, j)' = LastExec(Self, j)]_vars

\* C11: clear() or clear(k), for any key k (submitted or not), called when
\* the queues it is about (all of them, or the queue of k) are empty returns
\* 0, leaves dropped_calls and total_calls as they were and leaves the keys
\* it is about Idle; and a clear repeated at once returns 0 and changes
\* nothing.
C11_ClearIdempotent ==
    /\ [][\A a \in ClearArgs :
             (/\ last'.op = "clear" /\ last'.key = a
              /\ \A k \in (IF a = None THEN Keys ELSE {a}) : QueueOf(k) = <<>>)
                 => /\ last'.ret = 0
                    /\ stats' = stats
                    /\ \A k \in (IF a = None THEN Keys ELSE {a}) :
                          QueueOf(k)' = <<>> /\ ~FlagOf(k)']_vars
    /\ [](last.op = "clear"
            => LET again == ClearQueueResult(Self, last.key)
               IN /\ again.ret = 0
                  /\ again.state.call_queues = call_queues
                  /\ again.state.processing_flags = processing_flags
                  /\ again.state.stats = stats)

\* C12: total_calls counts the submits (accepted or refused) and nothing
\* else; dropped_calls grows in every step by exactly the number of calls
\* that leave the throttler without running (refused, evicted or discarded
\* by clear); neither counter ever decreases; and get_stats reports
\* drop_rate = dropped_calls / max(1, total_calls), which is d / n after
\* n > 0 submits with d calls dropped.
C12_Statistics ==
    /\ [][LET submit == last'.op = "submit"
              entered == Ids(QueuedCalls) \cup
                         (IF submit THEN {stats'.total_calls} ELSE {})
              kept == Ids(QueuedCalls') \cup Ids(ScheduledCalls') \cup Ids(RanCalls')
          IN /\ stats'.total_calls = stats.total_calls + (IF submit THEN 1 ELSE 0)
             /\ stats'.dropped_calls = stats.dropped_calls + Cardinality(entered \ kept)
             /\ stats'.dropped_calls >= stats.dropped_calls]_vars
    /\ [](LET reported == GetStats(Self)
          IN /\ reported.total_calls_made = stats.total_calls
             /\ reported.dropped_calls = stats.dropped_calls
             /\ reported.drop_rate.num = stats.dropped_calls
             /\ reported.drop_rate.den >= 1
             /\ stats.total_calls = 0 => reported.drop_rate.num = 0
             /\ stats.total_calls > 0 => reported.drop_rate.den = stats.total_calls)

\* a clear discarded queued calls after a submit had already cost a call:
\* two of four submitted calls are counted as dropped
C12_Witness ==
    /\ last.op = "clear"
    /\ last.ret > 0
    /\ stats.dropped_calls > last.ret
    /\ GetStats(Self).drop_rate = [num |-> 2, den |-> 4]

\* C13: on a fresh throttler with max_queue_size 2, "drop_oldest" and a
\* budget above one full queue, four calls A, B, C, D (ids 1..4) submitted
\* to one unused key in a burst under a positive throttle_time leave that
\* key's queue as [C, D] and dropped_calls = 1.
C13_DropOldestScenario ==
    \A k \in Keys :
        (/\ stats.total_calls = 4
         /\ DOMAIN call_queues = {k}
         /\ max_queue_size = 2
         /\ queue_strategy = "drop_oldest"
         /\ total_max_queued_items > max_queue_size
         /\ throttle_time > 0)
            => /\ [i \in 1..Len(call_queues[k]) |-> call_queues[k][i].id] = <<3, 4>>
               /\ stats.dropped_calls = 1

\* C13 (amended): the same burst ends with dropped_calls = 0: nothing is
\* evicted, every call has run, is held by the one scheduled callback or is
\* queued; when A's callable returns, A has run, B is popped and held by
\* the scheduled callback, and the queue is [C, D].
C13_DropOldestPopped ==
    \A k \in Keys :
        (/\ stats.total_calls = 4
         /\ DOMAIN call_queues = {k}
         /\ max_queue_size = 2
         /\ queue_strategy = "drop_oldest"
         /\ total_max_queued_items > max_queue_size
         /\ throttle_time > 0)
            => /\ stats.dropped_calls = 0
               /\ Cardinality(scheduled) <= 1
               /\ runs[k].n + Cardinality(scheduled) + Len(call_queues[k]) = 4
               /\ runs[k].call = [id |-> 1, raises |-> FALSE]
                     => /\ [i \in 1..Len(call_queues[k]) |-> call_queues[k][i].id]
                               = <<3, 4>>
                        /\ Ids(ScheduledCalls) = {2}

\* the burst A, B, C, D has been submitted to one key and A returned
C13_Witness ==
    /\ stats.total_calls = 4
    /\ \E k \in Keys : /\ DOMAIN call_queues = {k}
                       /\ runs[k].call = [id |-> 1, raises |-> FALSE]
                       /\ Len(call_queues[k]) = 2
    /\ max_queue_size = 2
    /\ queue_strategy = "drop_oldest"
    /\ total_max_queued_items > max_queue_size
    /\ throttle_time > 0

\* C14: a clear that reaches key k (clear(k) or clear()) while a popped call
\* of k awaits its callback runs nothing, leaves the queue of k empty and
\* leaves exactly one call of k with the host, the single popped entry; no
\* step ever runs a call that is neither queued, with the host nor just
\* accepted, so a cleared call never runs; and a callback of k that fires
\* while the queue of k is empty leaves k Idle with an empty queue.
C14_ClearInFlight ==
    [][/\ \A a \in ClearArgs, k \in Keys :
            (/\ last'.op = "clear" /\ last'.key = a
             /\ (a = None \/ a = k)
             /\ Outstanding(k) # {})
                => /\ last'.ran = <<>>
                   /\ QueueOf(k)' = <<>>
                   /\ Outstanding(k)' = Outstanding(k)
                   /\ Cardinality(Outstanding(k)') = 1
       /\ Ids(RanCalls') \subseteq
              Ids(QueuedCalls) \cup Ids(ScheduledCalls) \cup
              (IF last'.op = "submit" THEN {stats'.total_calls} ELSE {})
       /\ \A k \in Keys :
            (last'.op = "fire" /\ last'.key = k /\ QueueOf(k) = <<>>)
                => QueueOf(k)' = <<>> /\ ~FlagOf(k)']_vars

\* C15: whenever a popped call of key k is handed to the host, the frames
\* it is handed with last at least throttle_time - (now - last_execution_time[k]):
\* the callback cannot fire before throttle_time has passed since the stamp.
C15_WaitNotShortened ==
    [][\A cb \in scheduled' \ scheduled :
          cb.due - now' >= throttle_time - (now' - LastExec(Self, cb.key)')]_vars

\* C16: no submit and no callback nests _process_queue and
\* _execute_and_continue deeper than the two frames it takes to run one
\* call and hand the next one to the host, however many calls are queued.
C16_IterativeDrain ==
    last.op \in {"submit", "fire"} => last.depth <= 2

\* C17: between handlers, the flag of a key is true exactly when a popped
\* call of that key is with the host awaiting its callback; so it is false
\* once a call has run and left the queue empty, and it is never false
\* while a callback of the key is outstanding.
C17_FlagTracksDrain ==
    \A k \in Keys : FlagOf(k) <=> Outstanding(k) # {}

\* C18: the calls of a key run in the order they were submitted: every call
\* a step runs was submitted later than the call the key ran before it.
C18_FifoExecution ==
    [][\A k \in Keys :
          last'.key = k =>
              \A i \in 1..Len(last'.ran) :
                  /\ (i = 1 /\ k \in DOMAIN runs) => last'.ran[i].id > runs[k].call.id
                  /\ i > 1 => last'.ran[i].id > last'.ran[i - 1].id]_vars

\* C19: every submitted call is in exactly one place: total_calls is the
\* sum of dropped_calls, the executions so far, the queued calls and the
\* popped calls held by the host; the calls a step runs, the calls it
\* drops, the queued calls and the calls with the host are disjoint, no
\* call runs twice in a step, and dropped_calls never exceeds total_calls.
C19_Conservation ==
    /\ stats.total_calls = stats.dropped_calls + Executed
                           + TotalQueued(call_queues) + Cardinality(scheduled)
    /\ stats.dropped_calls <= stats.total_calls
    /\ Cardinality(Ids(RanCalls)) = Len(last.ran)
    /\ Cardinality(Ids(ScheduledCalls)) = Cardinality(scheduled)
    /\ Cardinality(Ids(QueuedCalls)) = TotalQueued(call_queues)
    /\ Ids(RanCalls) \cap Ids(last.dropped) = {}
    /\ Ids(RanCalls) \cap (Ids(QueuedCalls) \cup Ids(ScheduledCalls)) = {}
    /\ Ids(last.dropped) \cap (Ids(QueuedCalls) \cup Ids(ScheduledCalls)) = {}
    /\ Ids(QueuedCalls) \cap Ids(ScheduledCalls) = {}

\* of four submitted calls one has run, one is with the host, one is queued
\* and one was dropped
C19_Witness ==
    /\ stats.total_calls = 4
    /\ stats.dropped_calls = 1
    /\ Executed = 1
    /\ TotalQueued(call_queues) = 1
    /\ Cardinality(scheduled) = 1

\* C20: when set_queue_limits has left a key's queue longer than
\* max_queue_size, or the queues together above total_max_queued_items, the
\* next submit to that key returns with the key's queue within
\* max_queue_size and the queues together within total_max_queued_items.
C20_ReconfiguredBounds ==
    [][\A k \in Keys :
          (/\ last'.op = "submit" /\ last'.key = k
           /\ \/ Len(QueueOf(k)) > max_queue_size
              \/ TotalQueued(call_queues) > total_max_queued_items)
              => /\ Len(QueueOf(k)') <= max_queue_size'
                 /\ TotalQueued(call_queues') <= total_max_queued_items']_vars

====
